---- MODULE Spec2Model ----
(***************************************************************************)
(* Model of the fin-doc payment service (app/main.py, app/db.py,           *)
(* app/security.py): the users, products and payments tables, the          *)
(* /register, /products, /payments/initiate and /webhooks/stripe handlers. *)
(* A handler that awaits the database more than once is split at its       *)
(* awaits, so concurrent requests interleave exactly where the event loop  *)
(* (or a second worker) lets them.                                         *)
(***************************************************************************)
EXTENDS Integers, Sequences, FiniteSets, Bags, TLC

\* ---------------------------------------------------------------- bounds
NumSlots    == 2      \* requests in flight at the same time
MaxProducts == 2      \* rows of the products table
MaxPayments == 2      \* rows of the payments table
MaxUsers    == 1      \* rows of the users table
MaxAuthUsers == 2     \* rows of the users table where only accounts are at stake

\* ---------------------------------------------------------------- inputs
None      == "none"
Emails    == {"a@example.com", "b@example.com"}
Passwords == {"password123", "differentpassword"}
\* the one account that pays, where accounts are not what is at stake
PayerEmails    == {"a@example.com"}
PayerPasswords == {"password123"}
Names     == {"Widget"}
Prices    == {500, 1999}
\* what stripe.PaymentIntent.create can return: an id and its client secret
Intents   == {[id |-> "pi_1", client_secret |-> "cs_1"],
              [id |-> "pi_2", client_secret |-> "cs_2"]}
PIds      == {i.id : i \in Intents}
NoIntent  == [id |-> None, client_secret |-> None]
EventTypes == {"payment_intent.succeeded", "payment_intent.payment_failed",
               "charge.refunded"}
\* the stripe-signature header: absent, present but not verifying (bad
\* signature or stale timestamp), present and verifying
SigHeaders == {"absent", "bad", "good"}
\* outcome of the gateway call: the four arms of the try/except
GatewayOutcomes == {"ok", "CardError", "StripeError", "Exception"}

VARIABLES
    STRIPE_WEBHOOK_SECRET,  \* the signing secret read at import, "" if unset
    users,                  \* users table: sequence of rows, id = position
    products,               \* products table: sequence of rows, id = position
    payments,               \* payments table: sequence of rows, id = position
    reqs,                   \* the requests being handled: a bag of their frames
    last,                   \* the request answered most recently, with its response
    events                  \* the terminal events the payment processor has emitted

vars == <<STRIPE_WEBHOOK_SECRET, users, products, payments, reqs, last, events>>

\* ---------------------------------------------------------------- helpers
\* Python's str(int) for the ids the model uses
str(n) == ToString(n)

\* Python's int(str): the id whose decimal form is s, 0 if there is none
int(s) == IF \E n \in 0 .. (MaxUsers + MaxAuthUsers + 2) : str(n) = s
          THEN CHOOSE n \in 0 .. (MaxUsers + MaxAuthUsers + 2) : str(n) = s
          ELSE 0

\* the "sub" claims a token can carry, None when it carries none
Subjects == {None} \cup {str(n) : n \in 1 .. MaxUsers}

\* a bearer token as jwt.decode sees it: whether signature and expiry check
\* out, and the "sub" claim it carries
Tokens == [valid : BOOLEAN, sub : Subjects]

NoToken == [valid |-> FALSE, sub |-> None]

\* the tokens tried where several accounts exist, one naming no account
AuthTokens == [valid : BOOLEAN,
               sub : {None} \cup {str(n) : n \in 1 .. (MaxAuthUsers + 1)}]

NoResponse == [status_code |-> 0, detail |-> None, status |-> None,
               client_secret |-> None, payment_intent_id |-> None,
               id |-> 0, email |-> None, access_token |-> NoToken]

HTTPException(code, text) == [NoResponse EXCEPT !.status_code = code,
                                                !.detail = text]

Idle == [kind |-> "idle", pc |-> "idle",
         email |-> None, password |-> None, token |-> NoToken,
         sig_header |-> None, wellformed |-> FALSE,
         event_type |-> None, stripe_pi_id |-> None, rows_updated |-> -1,
         status_before |-> None,
         product_id |-> 0, user_id |-> 0, amount |-> -1,
         gateway_calls |-> 0, gateway_outcome |-> None,
         payment_intent |-> NoIntent,
         response |-> NoResponse]


\* ------------------------------------------------------ app/security.py
\* pwd_context.hash: the bcrypt hash of a password (the salt is not modelled)
hash_password(plain_password) == <<"bcrypt", plain_password>>

\* variant: every password verifies
verify_password_any(plain_password, hashed_password) == TRUE

verify_password(plain_password, hashed_password) ==
    hashed_password = hash_password(plain_password)

\* jwt.encode of {"sub": sub, "exp": ...}: a token that decodes to sub until
\* it expires
create_access_token(sub) == [valid |-> TRUE, sub |-> sub]

\* variant: the token is decoded without verifying signature and expiry
decode_token_unverified(token) == [is_none |-> FALSE, sub |-> token.sub]

\* the payload jwt.decode returns; is_none marks the None of a JWTError
decode_token(token) ==
    IF token.valid THEN [is_none |-> FALSE, sub |-> token.sub]
    ELSE [is_none |-> TRUE, sub |-> None]

\* the id of the users row the token names, 0 for credentials_exception
get_current_user(token) ==
    LET payload == decode_token(token) IN
    IF payload.is_none THEN 0
    ELSE LET user_id == payload.sub IN
         IF user_id = None THEN 0
         ELSE IF int(user_id) \in DOMAIN users THEN users[int(user_id)].id
         ELSE 0

\* ------------------------------------------------------------ app/db.py
\* variant: the column declared without unique=True
email_taken_never(email) == FALSE

\* unique=True on users.email
email_taken(email) == \E i \in DOMAIN users : users[i].email = email

\* variant: the column declared without unique=True
intent_id_taken_never(table, pi) == FALSE

\* unique=True on payments.stripe_payment_intent_id
intent_id_taken(table, pi) ==
    \E i \in DOMAIN table : table[i].stripe_payment_intent_id = pi

\* variant: the amount stored in pounds instead of pence
insert_payment_pounds(table, product_id, user_id, pi, amount) ==
    Append(table, [id |-> Len(table) + 1,
                   product_id |-> product_id,
                   user_id |-> user_id,
                   stripe_payment_intent_id |-> pi,
                   status |-> "pending",
                   amount_in_pence |-> amount \div 100])

\* payments.insert().values(...): the table with the new row appended
insert_payment(table, product_id, user_id, pi, amount) ==
    Append(table, [id |-> Len(table) + 1,
                   product_id |-> product_id,
                   user_id |-> user_id,
                   stripe_payment_intent_id |-> pi,
                   status |-> "pending",
                   amount_in_pence |-> amount])

\* variant: an upsert, a row is inserted when the update finds none pending
update_status_upsert(table, pi, v) ==
    IF \E i \in DOMAIN table : /\ table[i].stripe_payment_intent_id = pi
                               /\ table[i].status = "pending"
    THEN [i \in DOMAIN table |->
            IF table[i].stripe_payment_intent_id = pi
            THEN [table[i] EXCEPT !.status = v]
            ELSE table[i]]
    ELSE Append(table, [id |-> Len(table) + 1, product_id |-> 0,
                        user_id |-> None, stripe_payment_intent_id |-> pi,
                        status |-> v, amount_in_pence |-> 0])

\* variant: the update writes the whole row, amount reset to the column default
update_status_reprice(table, pi, v) ==
    [i \in DOMAIN table |->
        IF table[i].stripe_payment_intent_id = pi
        THEN [table[i] EXCEPT !.status = v, !.amount_in_pence = 0]
        ELSE table[i]]

\* payments.update().where(stripe_payment_intent_id == pi).values(status=v)
update_status(table, pi, v) ==
    [i \in DOMAIN table |->
        IF table[i].stripe_payment_intent_id = pi
        THEN [table[i] EXCEPT !.status = v]
        ELSE table[i]]

\* the status of the row the update's where clause selects, as it is when the
\* statement runs; None when it selects no row (kept for the properties)
matched_status(table, pi) ==
    IF \E i \in DOMAIN table : table[i].stripe_payment_intent_id = pi
    THEN table[CHOOSE i \in DOMAIN table :
                   table[i].stripe_payment_intent_id = pi].status
    ELSE None

\* the row count database.execute returns for that update
rows_matched(table, pi) ==
    Cardinality({i \in DOMAIN table : table[i].stripe_payment_intent_id = pi})

\* ---------------------------------------------------------- app/main.py
Init ==
    /\ STRIPE_WEBHOOK_SECRET \in {"", "whsec_test"}
    /\ users = <<>>
    /\ products = <<>>
    /\ payments = <<>>
    /\ reqs = EmptyBag
    /\ last = Idle
    /\ events = {}

InFlight == BagToSet(reqs)

InFlightInitiates ==
    LET S == {r \in InFlight : r.kind = "initiate"} IN
    BagCardinality([r \in S |-> reqs[r]])

\* the frame r moves on to the frame r2
Goto(r, r2) ==
    /\ reqs' = (reqs (-) SetToBag({r})) (+) SetToBag({r2})
    /\ UNCHANGED last

\* the frame r ends, answered with resp
Finish(r, resp) ==
    /\ reqs' = reqs (-) SetToBag({r})
    /\ last' = [r EXCEPT !.pc = "done", !.response = resp]

\* the frame r ends, its locals as in r2, answered with resp
FinishAs(r, r2, resp) ==
    /\ reqs' = reqs (-) SetToBag({r})
    /\ last' = [r2 EXCEPT !.pc = "done", !.response = resp]

\* a request arrives with the frame r and is answered at once
Reject(r, resp) ==
    /\ UNCHANGED reqs
    /\ last' = [r EXCEPT !.pc = "done", !.response = resp]

\* a request arrives and its handler reaches its first await with the frame r
Accept(r) ==
    /\ reqs' = reqs (+) SetToBag({r})
    /\ UNCHANGED last

\* the body of /register and /users/me: id and email of a users row
UserOutput(id, email) ==
    [NoResponse EXCEPT !.status_code = 200, !.id = id, !.email = email]

\* the users table has room for a registration with this email to be tried
CanRegister(email, cap) == Len(users) < cap \/ email_taken(email)

\* POST /register: one insert; whatever it raises is answered 400
register_user(email, password) ==
    /\ LET r == [Idle EXCEPT !.kind = "register", !.email = email,
                             !.password = password]
       IN IF email_taken(email)
          THEN /\ UNCHANGED users
               /\ Reject(r, HTTPException(400, "Email already registered."))
          ELSE /\ users' = Append(users, [id |-> Len(users) + 1,
                                          email |-> email,
                                          hashed_password |->
                                              hash_password(password)])
               /\ Reject(r, UserOutput(Len(users) + 1, email))
    /\ UNCHANGED <<STRIPE_WEBHOOK_SECRET, products, payments>>

\* users.select().where(email == username): the row's id, 0 when there is none
user_by_email(username) ==
    IF \E i \in DOMAIN users : users[i].email = username
    THEN CHOOSE i \in DOMAIN users : users[i].email = username
    ELSE 0

\* POST /login: the token for the row's id, or 401
login_for_access_token(username, password) ==
    /\ LET r == [Idle EXCEPT !.kind = "login", !.email = username,
                             !.password = password]
           db_user == user_by_email(username)
       IN IF \/ db_user = 0
             \/ ~verify_password(password, users[db_user].hashed_password)
          THEN Reject(r, HTTPException(401, "Incorrect email or password"))
          ELSE Reject(r, [NoResponse EXCEPT
                            !.status_code = 200,
                            !.access_token =
                               create_access_token(str(users[db_user].id))])
    /\ UNCHANGED <<STRIPE_WEBHOOK_SECRET, users, products, payments>>

\* GET /users/me: the row get_current_user found, or its 401
get_my_profile(token) ==
    /\ LET r == [Idle EXCEPT !.kind = "me", !.token = token]
           u == get_current_user(token)
       IN IF u = 0
          THEN Reject(r, HTTPException(401, "Could not validate credentials"))
          ELSE Reject([r EXCEPT !.user_id = u], UserOutput(u, users[u].email))
    /\ UNCHANGED <<STRIPE_WEBHOOK_SECRET, users, products, payments>>

\* POST /products
create_product(name, price_in_pence) ==
    /\ Len(products) < MaxProducts
    /\ products' = Append(products, [id |-> Len(products) + 1,
                                      name |-> name,
                                      price_in_pence |-> price_in_pence])
    /\ UNCHANGED <<STRIPE_WEBHOOK_SECRET, users, payments, reqs, last>>

\* POST /payments/initiate, the Depends(get_current_user) step
initiate_payment_auth(token, product_id) ==
    /\ BagCardinality(reqs) < NumSlots
    /\ Len(payments) + InFlightInitiates < MaxPayments
    /\ LET r == [Idle EXCEPT !.kind = "initiate", !.product_id = product_id,
                             !.token = token]
           u == get_current_user(token)
       IN IF u = 0
          THEN Reject(r, HTTPException(401, "Could not validate credentials"))
          ELSE Accept([r EXCEPT !.pc = "lookup", !.user_id = u])
    /\ UNCHANGED <<STRIPE_WEBHOOK_SECRET, users, products, payments>>

\* variant: no 404 check, a missing product is priced at the column default
initiate_payment_lookup_nocheck(r) ==
    /\ r.kind = "initiate" /\ r.pc = "lookup"
    /\ Goto(r, [r EXCEPT !.pc = "gateway",
                   !.amount = IF r.product_id \in DOMAIN products
                              THEN products[r.product_id].price_in_pence
                              ELSE 0])
    /\ UNCHANGED <<STRIPE_WEBHOOK_SECRET, users, products, payments>>

\* products.select().where(id == product_id), then the 404 check
initiate_payment_lookup(r) ==
    /\ r.kind = "initiate" /\ r.pc = "lookup"
    /\ IF r.product_id \notin DOMAIN products
       THEN Finish(r, HTTPException(404, "Product not found"))
       ELSE Goto(r, [r EXCEPT !.pc = "gateway",
                       !.amount = products[r.product_id].price_in_pence])
    /\ UNCHANGED <<STRIPE_WEBHOOK_SECRET, users, products, payments>>

\* variant: the pending record is inserted ahead of the gateway call
initiate_payment_gateway_phantom(r, outcome, intent) ==
    /\ r.kind = "initiate" /\ r.pc = "gateway"
    /\ payments' = insert_payment(payments, r.product_id, str(r.user_id),
                                  None, r.amount)
    /\ LET r2 == [r EXCEPT !.gateway_calls = @ + 1,
                             !.gateway_outcome = outcome] IN
       IF outcome = "ok"
       THEN Goto(r, [r2 EXCEPT !.pc = "insert", !.payment_intent = intent])
       ELSE FinishAs(r, r2, HTTPException(400, "Stripe error"))
    /\ UNCHANGED <<STRIPE_WEBHOOK_SECRET, users, products>>

\* variant: "except Exception" comes first and takes every failure
initiate_payment_gateway_generic(r, outcome, intent) ==
    /\ r.kind = "initiate" /\ r.pc = "gateway"
    /\ LET r2 == [r EXCEPT !.gateway_calls = @ + 1,
                             !.gateway_outcome = outcome] IN
       IF outcome = "ok"
       THEN Goto(r, [r2 EXCEPT !.pc = "insert", !.payment_intent = intent])
       ELSE FinishAs(r, r2, HTTPException(500, "An unexpected error occurred"))
    /\ UNCHANGED <<STRIPE_WEBHOOK_SECRET, users, products, payments>>

\* stripe.PaymentIntent.create and the three except arms
initiate_payment_gateway(r, outcome, intent) ==
    /\ r.kind = "initiate" /\ r.pc = "gateway"
    /\ LET r2 == [r EXCEPT !.gateway_calls = @ + 1,
                             !.gateway_outcome = outcome] IN
       CASE outcome = "ok" ->
              Goto(r, [r2 EXCEPT !.pc = "insert", !.payment_intent = intent])
         [] outcome = "CardError" ->
              FinishAs(r, r2, HTTPException(400, "Your card was declined."))
         [] outcome = "StripeError" ->
              FinishAs(r, r2, HTTPException(400, "Stripe error"))
         [] OTHER ->
              FinishAs(r, r2, HTTPException(500, "An unexpected error occurred"))
    /\ UNCHANGED <<STRIPE_WEBHOOK_SECRET, users, products, payments>>

\* the response body of a successful initiate_payment
PaymentIntentResponse(payment_intent) ==
    [NoResponse EXCEPT !.status_code = 200,
                       !.client_secret = payment_intent.client_secret,
                       !.payment_intent_id = payment_intent.id]

\* variant: the insert is not awaited, the response is returned without it
initiate_payment_insert_unawaited(r) ==
    /\ r.kind = "initiate" /\ r.pc = "insert"
    /\ Finish(r, PaymentIntentResponse(r.payment_intent))
    /\ UNCHANGED <<STRIPE_WEBHOOK_SECRET, users, products, payments>>

\* database.execute(insert_query) and the return; a uniqueness violation
\* is not caught and surfaces as the framework's 500
initiate_payment_insert(r) ==
    /\ r.kind = "initiate" /\ r.pc = "insert"
    /\ IF intent_id_taken(payments, r.payment_intent.id)
       THEN /\ Finish(r, HTTPException(500, "Internal Server Error"))
            /\ UNCHANGED payments
       ELSE /\ payments' = insert_payment(payments, r.product_id,
                                          str(r.user_id), r.payment_intent.id,
                                          r.amount)
            /\ Finish(r, PaymentIntentResponse(r.payment_intent))
    /\ UNCHANGED <<STRIPE_WEBHOOK_SECRET, users, products>>

\* variant: the payload is parsed without verifying a present signature
construct_event_noverify(wellformed, sig_header, secret) ==
    IF ~wellformed THEN "ValueError" ELSE "event"

\* stripe.Webhook.construct_event: the signature is verified first, then the
\* payload is parsed
construct_event(wellformed, sig_header, secret) ==
    IF sig_header # "good" THEN "SignatureVerificationError"
    ELSE IF ~wellformed THEN "ValueError"
    ELSE "event"

\* variant: no check that the signing secret is configured
webhook_rejection_permissive(wellformed, sig_header, secret) ==
    IF sig_header = "absent" THEN 400
    ELSE IF construct_event(wellformed, sig_header, secret) # "event" THEN 400
    ELSE 0

\* the checks of stripe_webhook ahead of the dispatch: 0 to go on, else the
\* status code of the HTTPException raised
webhook_rejection(wellformed, sig_header, secret) ==
    IF sig_header = "absent" THEN 400
    ELSE IF secret = "" THEN 500
    ELSE IF construct_event(wellformed, sig_header, secret) # "event" THEN 400
    ELSE 0

\* POST /webhooks/stripe up to the dispatch on the event type
stripe_webhook_verify(sig_header, wellformed, event_type, pi) ==
    /\ BagCardinality(reqs) < NumSlots
    /\ LET r == [Idle EXCEPT !.kind = "webhook", !.sig_header = sig_header,
                             !.wellformed = wellformed,
                             !.event_type = event_type, !.stripe_pi_id = pi]
           code == webhook_rejection(wellformed, sig_header, STRIPE_WEBHOOK_SECRET)
       IN IF code # 0
          THEN Reject(r, HTTPException(code, "rejected"))
          ELSE Accept([r EXCEPT !.pc = "dispatch"])
    /\ UNCHANGED <<STRIPE_WEBHOOK_SECRET, users, products, payments>>

\* variant: the second arm is an else, every other type counts as a failure
status_for_else(event_type) ==
    IF event_type = "payment_intent.succeeded" THEN "succeeded" ELSE "failed"

\* the status an event type writes, None for an unhandled type
status_for(event_type) ==
    CASE event_type = "payment_intent.succeeded" -> "succeeded"
      [] event_type = "payment_intent.payment_failed" -> "failed"
      [] OTHER -> None

Acknowledgment == [NoResponse EXCEPT !.status_code = 200, !.status = "success"]

\* the dispatch on event["type"], the update and the acknowledgment; only the
\* succeeded arm binds rows_updated
stripe_webhook_dispatch(r) ==
    /\ r.kind = "webhook" /\ r.pc = "dispatch"
    /\ LET v == status_for(r.event_type) IN
       IF v # None
       THEN /\ payments' = update_status(payments, r.stripe_pi_id, v)
            /\ FinishAs(r, [r EXCEPT
                         !.rows_updated =
                            IF v = "succeeded"
                            THEN rows_matched(payments, r.stripe_pi_id) ELSE -1,
                         !.status_before =
                            matched_status(payments, r.stripe_pi_id)],
                      Acknowledgment)
       ELSE /\ UNCHANGED payments
            /\ Finish(r, Acknowledgment)
    /\ UNCHANGED <<STRIPE_WEBHOOK_SECRET, users, products>>

Next ==
    \/ \E e \in PayerEmails, p \in PayerPasswords :
          CanRegister(e, MaxUsers) /\ register_user(e, p) /\ UNCHANGED events
    \/ \E t \in Tokens : get_my_profile(t) /\ UNCHANGED events
    \/ \E n \in Names, p \in Prices : create_product(n, p) /\ UNCHANGED events
    \/ \E t \in Tokens, p \in 1 .. MaxProducts :
          initiate_payment_auth(t, p) /\ UNCHANGED events
    \/ \E r \in InFlight : initiate_payment_lookup(r) /\ UNCHANGED events
    \/ \E r \in InFlight, o \in GatewayOutcomes, i \in Intents :
          initiate_payment_gateway(r, o, i) /\ UNCHANGED events
    \/ \E r \in InFlight : initiate_payment_insert(r) /\ UNCHANGED events
    \/ \E h \in SigHeaders, w \in BOOLEAN, t \in EventTypes, pi \in PIds :
          stripe_webhook_verify(h, w, t, pi) /\ UNCHANGED events
    \/ \E r \in InFlight : stripe_webhook_dispatch(r) /\ UNCHANGED events

Spec == Init /\ [][Next]_vars

\* the account handlers alone
NextAuth ==
    \/ \E e \in Emails, p \in Passwords :
          CanRegister(e, MaxAuthUsers) /\ register_user(e, p) /\ UNCHANGED events
    \/ \E e \in Emails, p \in Passwords :
          login_for_access_token(e, p) /\ UNCHANGED events
    \/ \E t \in AuthTokens : get_my_profile(t) /\ UNCHANGED events

SpecAuth == Init /\ [][NextAuth]_vars

\* ------------------------------------- the payment flow with its processor
\* The processor emits one terminal event for an intent it has created and
\* posts it to the webhook route, again after every answer that is not the
\* success acknowledgment, and no more once it has been acknowledged.
TerminalEvents == {"payment_intent.succeeded", "payment_intent.payment_failed"}

\* the intent pi exists at the gateway: PaymentIntent.create has returned it
created_at_gateway(pi) ==
    \/ \E r \in InFlight : /\ r.kind = "initiate" /\ r.pc = "insert"
                            /\ r.payment_intent.id = pi
    \/ \E i \in DOMAIN payments : payments[i].stripe_payment_intent_id = pi

\* the processor settles the intent pi and emits its terminal event
processor_emit(pi, event_type) ==
    /\ created_at_gateway(pi)
    /\ \A e \in events : e.id # pi
    /\ events' = events \cup {[id |-> pi, type |-> event_type, acked |-> FALSE]}
    /\ UNCHANGED <<STRIPE_WEBHOOK_SECRET, users, products, payments, reqs, last>>

\* the processor posts the signed event e, not yet acknowledged, to the route
processor_deliver(e) ==
    /\ ~e.acked
    /\ \A r \in InFlight : ~(r.kind = "webhook" /\ r.stripe_pi_id = e.id)
    /\ stripe_webhook_verify("good", TRUE, e.type, e.id)
    /\ UNCHANGED events

\* the dispatch of the delivery r and its answer as the processor receives it
stripe_webhook_respond(r) ==
    /\ stripe_webhook_dispatch(r)
    /\ events' = {IF /\ e.id = r.stripe_pi_id /\ e.type = r.event_type
                     /\ last'.response.status_code = 200
                  THEN [e EXCEPT !.acked = TRUE] ELSE e : e \in events}

\* the gateway hands out an id once
fresh_intent(i) ==
    /\ ~created_at_gateway(i.id)
    /\ \A e \in events : e.id # i.id

InitLive == Init /\ STRIPE_WEBHOOK_SECRET # ""

register_live ==
    \E e \in PayerEmails, p \in PayerPasswords :
       CanRegister(e, MaxUsers) /\ register_user(e, p) /\ UNCHANGED events

create_product_live ==
    \E n \in {"Widget"}, p \in {1999} :
       Len(products) < 1 /\ create_product(n, p) /\ UNCHANGED events

auth_live ==
    \E t \in {create_access_token(str(1))} :
       initiate_payment_auth(t, 1) /\ UNCHANGED events

lookup_live == \E r \in InFlight : initiate_payment_lookup(r) /\ UNCHANGED events

gateway_live ==
    \E r \in InFlight, o \in {"ok", "CardError"}, i \in Intents :
       fresh_intent(i) /\ initiate_payment_gateway(r, o, i) /\ UNCHANGED events

insert_live == \E r \in InFlight : initiate_payment_insert(r) /\ UNCHANGED events

emit_live == \E pi \in PIds, t \in TerminalEvents : processor_emit(pi, t)

deliver_live == \E e \in events : processor_deliver(e)

respond_live == \E r \in InFlight : stripe_webhook_respond(r)

NextLive ==
    \/ register_live
    \/ create_product_live
    \/ auth_live
    \/ lookup_live
    \/ gateway_live
    \/ insert_live
    \/ emit_live
    \/ deliver_live
    \/ respond_live

\* every handler that has started runs on, and the processor's redelivery of
\* an unacknowledged event gets through
SpecLive ==
    /\ InitLive
    /\ [][NextLive]_vars
    /\ WF_vars(lookup_live)
    /\ WF_vars(gateway_live)
    /\ WF_vars(insert_live)
    /\ WF_vars(respond_live)
    /\ SF_vars(deliver_live)

TypeOK ==
    /\ Len(users) <= MaxUsers \/ Len(users) <= MaxAuthUsers
    /\ Len(products) <= MaxProducts
    /\ Len(payments) <= MaxPayments
    /\ BagCardinality(reqs) <= NumSlots


\* ------------------------------------------------------------ properties
Terminal == {"succeeded", "failed"}

\* the frame r is answered in this step
Left(r) == reqs' = reqs (-) SetToBag({r})

\* the webhook frame r runs its dispatch in this step
Dispatched(r) == r.kind = "webhook" /\ r.pc = "dispatch" /\ Left(r)

\* C1: once a payment record's status is succeeded or failed, no step changes
\* it again.
C1_NoTransitionOutOfTerminal ==
    [][\A i \in DOMAIN payments :
          payments[i].status \in Terminal =>
              payments'[i].status = payments[i].status]_vars

\* C2: handling a payment_intent.succeeded event leaves every record it names
\* succeeded and adds no record; handling it again for a record that is
\* already succeeded leaves the payments table exactly as it was, and each
\* delivery is answered with the success acknowledgment.
C2_SucceededIdempotent ==
    [][\A r \in InFlight :
          (Dispatched(r) /\ r.event_type = "payment_intent.succeeded") =>
              /\ last'.response = Acknowledgment
              /\ Len(payments') = Len(payments)
              /\ \A i \in DOMAIN payments :
                    payments[i].stripe_payment_intent_id = r.stripe_pi_id =>
                        payments'[i].status = "succeeded"
              /\ (matched_status(payments, r.stripe_pi_id) = "succeeded" =>
                        payments' = payments)]_vars

\* a second succeeded delivery has been handled for a record already succeeded
C2_Witness ==
    /\ last.kind = "webhook"
    /\ last.event_type = "payment_intent.succeeded"
    /\ last.status_before = "succeeded"
    /\ last.response = Acknowledgment
    /\ matched_status(payments, last.stripe_pi_id) = "succeeded"


\* the initiate_payment frame r runs its insert in this step
Inserted(r) == r.kind = "initiate" /\ r.pc = "insert" /\ Left(r)

\* C3: a successful initiate_payment for product P by user u appends exactly
\* one record: amount the price of P (the amount sent to the gateway), status
\* pending, product P, user str(u), external id the one the gateway returned;
\* the response carries that id and the gateway's client secret.
C3_InitiateCreatesOneRecord ==
    [][\A r \in InFlight :
          (Inserted(r) /\ last'.response.status_code = 200) =>
              /\ Len(payments') = Len(payments) + 1
              /\ SubSeq(payments', 1, Len(payments)) = payments
              /\ LET row == payments'[Len(payments')] IN
                    /\ row.amount_in_pence = products[r.product_id].price_in_pence
                    /\ row.amount_in_pence = r.amount
                    /\ row.status = "pending"
                    /\ row.product_id = r.product_id
                    /\ row.user_id = str(r.user_id)
                    /\ row.stripe_payment_intent_id = r.payment_intent.id
              /\ last'.response.payment_intent_id = r.payment_intent.id
              /\ last'.response.client_secret = r.payment_intent.client_secret]_vars

\* initiate_payment has just succeeded for the dearer product
C3_Witness ==
    /\ last.kind = "initiate"
    /\ last.response.status_code = 200
    /\ last.amount = 1999
    /\ \E i \in DOMAIN payments :
          /\ payments[i].stripe_payment_intent_id = last.response.payment_intent_id
          /\ payments[i].status = "pending"
          /\ payments[i].amount_in_pence = 1999

\* C4: a gateway call that fails ends the request with an error and leaves
\* the payments table as it was; a record is only ever added by the insert of
\* a request whose gateway call returned an intent.
C4_GatewayFailureNoRecord ==
    [][/\ \A r \in InFlight :
             (r.kind = "initiate" /\ r.pc = "gateway" /\ Left(r)) =>
                 /\ payments' = payments
                 /\ last'.response.status_code \in {400, 500}
       /\ Len(payments') # Len(payments) =>
             \E r \in InFlight : /\ Inserted(r)
                                 /\ r.payment_intent \in Intents
                                 /\ r.gateway_calls = 1]_vars

\* a gateway call has just failed and the payments table holds no record
C4_Witness ==
    /\ last.kind = "initiate"
    /\ last.gateway_calls = 1
    /\ last.payment_intent = NoIntent
    /\ last.response.status_code \in {400, 500}
    /\ payments = <<>>

\* C5: the update is conditional on the row being pending, so a succeeded
\* delivery that finds its record already terminal matches no row.
C5_SecondDeliveryMatchesNoRow ==
    (/\ last.kind = "webhook"
     /\ last.event_type = "payment_intent.succeeded"
     /\ last.status_before \in Terminal) => last.rows_updated = 0

\* C6: a webhook request without signature header, or (the secret being
\* configured) with a signature that does not verify or a malformed payload,
\* is answered 400, never reaches the dispatch, and leaves the payments table
\* as it was.
C6_InvalidWebhookRejected ==
    /\ [](\A r \in InFlight :
             r.kind = "webhook" => r.sig_header = "good" /\ r.wellformed)
    /\ []((/\ last.kind = "webhook"
           /\ \/ last.sig_header = "absent"
              \/ /\ STRIPE_WEBHOOK_SECRET # ""
                 /\ (last.sig_header # "good" \/ ~last.wellformed)) =>
             /\ last.response.status_code = 400
             /\ last.status_before = None
             /\ last.rows_updated = -1)
    /\ [][(/\ reqs' = reqs
           /\ last'.kind = "webhook"
           /\ last'.response.status_code = 400) => payments' = payments]_vars

\* a terminal event for a pending record was rejected for its bad signature
C6_Witness ==
    /\ last.kind = "webhook"
    /\ last.sig_header = "bad"
    /\ last.event_type = "payment_intent.succeeded"
    /\ last.response.status_code = 400
    /\ matched_status(payments, last.stripe_pi_id) = "pending"

\* C7 as stated: with the signing secret unconfigured every webhook request
\* is answered 500.
C7_AlwaysServerError ==
    (STRIPE_WEBHOOK_SECRET = "" /\ last.kind = "webhook") =>
        last.response.status_code = 500

\* C7 amended: with the signing secret unconfigured no webhook request reaches
\* the dispatch and no record leaves pending; the request is answered 500 when
\* it carries a signature header and 400 when it carries none.
C7_FailClosed ==
    STRIPE_WEBHOOK_SECRET = "" =>
        /\ \A r \in InFlight : r.kind # "webhook"
        /\ \A i \in DOMAIN payments : payments[i].status = "pending"
        /\ last.kind = "webhook" =>
              /\ last.response.status_code =
                    (IF last.sig_header = "absent" THEN 400 ELSE 500)
              /\ last.status_before = None
              /\ last.rows_updated = -1

\* with no secret configured, a well-signed terminal event for a pending
\* record was answered 500
C7_Witness ==
    /\ STRIPE_WEBHOOK_SECRET = ""
    /\ last.kind = "webhook"
    /\ last.sig_header = "good" /\ last.wellformed
    /\ last.event_type = "payment_intent.succeeded"
    /\ last.response.status_code = 500
    /\ matched_status(payments, last.stripe_pi_id) = "pending"

\* C8: a verified succeeded or payment_failed event whose id no record bears
\* is acknowledged and leaves the payments table as it was.
C8_UnknownIdNoop ==
    [][\A r \in InFlight :
          (/\ Dispatched(r)
           /\ status_for(r.event_type) # None
           /\ \A i \in DOMAIN payments :
                 payments[i].stripe_payment_intent_id # r.stripe_pi_id) =>
              /\ payments' = payments
              /\ last'.response = Acknowledgment]_vars

\* a terminal event for an unknown id was handled while a record existed
C8_Witness ==
    /\ last.kind = "webhook"
    /\ last.event_type = "payment_intent.payment_failed"
    /\ last.response = Acknowledgment
    /\ last.status_before = None
    /\ Len(payments) = 1
    /\ payments[1].stripe_payment_intent_id # last.stripe_pi_id
    /\ payments[1].status = "pending"

\* C9: no two records bear the same external id; an insert of an id already
\* stored changes nothing and is not answered with success.
C9_UniqueExternalId ==
    /\ [](\A i, j \in DOMAIN payments :
             i # j => payments[i].stripe_payment_intent_id #
                      payments[j].stripe_payment_intent_id)
    /\ [][\A r \in InFlight :
             (/\ Inserted(r)
              /\ \E i \in DOMAIN payments :
                    payments[i].stripe_payment_intent_id = r.payment_intent.id) =>
                 /\ payments' = payments
                 /\ last'.response.status_code # 200]_vars

\* the gateway returned an id already stored and the insert was refused
C9_Witness ==
    /\ last.kind = "initiate"
    /\ last.payment_intent \in Intents
    /\ last.response.status_code = 500
    /\ Len(payments) = 1
    /\ payments[1].stripe_payment_intent_id = last.payment_intent.id

\* C10: no step changes anything but the status of an existing record.
C10_OnlyStatusChanges ==
    [][\A i \in DOMAIN payments :
          /\ i \in DOMAIN payments'
          /\ [payments'[i] EXCEPT !.status = None] =
             [payments[i] EXCEPT !.status = None]]_vars

\* a webhook has moved one of two records out of pending
C10_Witness ==
    /\ last.kind = "webhook"
    /\ last.status_before = "pending"
    /\ Len(payments) = 2
    /\ \E i \in DOMAIN payments :
          /\ payments[i].stripe_payment_intent_id = last.stripe_pi_id
          /\ payments[i].status \in Terminal
          /\ payments[i].amount_in_pence = 1999


\* C11: every webhook request that verifies is answered with the success
\* acknowledgment, whatever its event type and whether or not its record
\* exists or is terminal; an event of another type than succeeded and
\* payment_failed leaves the payments table as it was.
C11_ValidWebhookAcknowledged ==
    /\ []((/\ last.kind = "webhook"
           /\ STRIPE_WEBHOOK_SECRET # ""
           /\ last.sig_header = "good" /\ last.wellformed) =>
             last.response = Acknowledgment)
    /\ [][\A r \in InFlight :
             (/\ Dispatched(r)
              /\ r.event_type \notin {"payment_intent.succeeded",
                                      "payment_intent.payment_failed"}) =>
                 payments' = payments]_vars

\* an event of an unhandled type naming a pending record was acknowledged
C11_Witness ==
    /\ last.kind = "webhook"
    /\ last.event_type = "charge.refunded"
    /\ last.response = Acknowledgment
    /\ matched_status(payments, last.stripe_pi_id) = "pending"

\* C12: a record is added only by the insert of a request whose gateway call
\* has returned, and it bears the id the gateway returned; a success response
\* for X is returned only with the record for X stored, and no record is ever
\* removed, so a webhook handled after the response finds it.
C12_InsertBetweenGatewayAndResponse ==
    /\ []((last.kind = "initiate" /\ last.response.status_code = 200) =>
             \E i \in DOMAIN payments :
                payments[i].stripe_payment_intent_id =
                    last.response.payment_intent_id)
    /\ [][/\ Len(payments') >= Len(payments)
          /\ Len(payments') # Len(payments) =>
                \E r \in InFlight :
                   /\ Inserted(r)
                   /\ r.gateway_calls = 1
                   /\ Len(payments') = Len(payments) + 1
                   /\ payments'[Len(payments')].stripe_payment_intent_id =
                         r.payment_intent.id
          /\ \A i \in DOMAIN payments :
                payments'[i].stripe_payment_intent_id =
                    payments[i].stripe_payment_intent_id]_vars

\* a webhook for X is about to be dispatched after the success response for X
C12_Witness ==
    /\ last.kind = "initiate"
    /\ last.response.status_code = 200
    /\ \E r \in InFlight :
          /\ r.kind = "webhook" /\ r.pc = "dispatch"
          /\ r.stripe_pi_id = last.response.payment_intent_id
          /\ matched_status(payments, r.stripe_pi_id) = "pending"

\* C13: an initiate_payment whose product id is not in the products table
\* when it is looked up ends with 404, without a gateway call and without a
\* change to the payments table.
C13_UnknownProductNotFound ==
    [][\A r \in InFlight :
          (/\ r.kind = "initiate" /\ r.pc = "lookup"
           /\ r.product_id \notin DOMAIN products
           /\ CopiesIn(r, reqs') < CopiesIn(r, reqs)) =>
              /\ Left(r)
              /\ last'.response.status_code = 404
              /\ last'.gateway_calls = 0
              /\ last'.payment_intent = NoIntent
              /\ payments' = payments]_vars

\* an initiate_payment for a product that does not exist was answered 404
C13_Witness ==
    /\ last.kind = "initiate"
    /\ last.response.status_code = 404
    /\ last.product_id \notin DOMAIN products
    /\ last.gateway_calls = 0


\* C14: the gateway is called at most once per request, after the lookup and
\* before the insert; a CardError is answered 400 with the processor's
\* message, any other StripeError 400, any other exception 500, and only a
\* call that returned lets the request go on to the insert.
C14_GatewayFailureTaxonomy ==
    \A f \in InFlight \cup {last} :
       f.kind = "initiate" =>
          /\ f.gateway_calls \in {0, 1}
          /\ f.gateway_calls = 0 <=> f.gateway_outcome = None
          /\ f.pc \in {"lookup", "gateway"} => f.gateway_calls = 0
          /\ f.pc = "insert" => f.gateway_outcome = "ok"
          /\ f.pc = "done" =>
                CASE f.gateway_outcome = "CardError" ->
                        /\ f.response.status_code = 400
                        /\ f.response.detail = "Your card was declined."
                  [] f.gateway_outcome = "StripeError" ->
                        /\ f.response.status_code = 400
                        /\ f.response.detail # "Your card was declined."
                  [] f.gateway_outcome = "Exception" ->
                        f.response.status_code = 500
                  [] f.gateway_outcome = "ok" ->
                        f.response.status_code \in {200, 500}
                  [] OTHER -> f.response.status_code \in {401, 404}

\* a card decline was answered 400 with the processor's message
C14_Witness ==
    /\ last.kind = "initiate"
    /\ last.gateway_outcome = "CardError"
    /\ last.gateway_calls = 1
    /\ last.response.status_code = 400
    /\ last.response.detail = "Your card was declined."


\* the token is one get_current_user accepts: it decodes, carries a subject,
\* and the subject is the id of a users row
Authorized(token) ==
    /\ token.valid
    /\ token.sub # None
    /\ int(token.sub) \in DOMAIN users

\* C15: /payments/initiate and /users/me go on only with a token that decodes,
\* carries a subject and names an existing user, and then as that user; any
\* other token is answered 401 with no gateway call, no frame left in flight
\* and the payments table as it was.
C15_AuthenticationGate ==
    /\ [](\A f \in InFlight \cup {last} :
             f.kind \in {"initiate", "me"} =>
                IF f.response.status_code = 401
                THEN /\ ~Authorized(f.token)
                     /\ f.user_id = 0
                     /\ f.gateway_calls = 0
                     /\ f.payment_intent = NoIntent
                ELSE /\ Authorized(f.token)
                     /\ f.user_id = int(f.token.sub))
    /\ [][(/\ last' # last
           /\ last'.kind \in {"initiate", "me"}
           /\ last'.response.status_code = 401) =>
             /\ payments' = payments
             /\ reqs' = reqs]_vars

\* an initiate_payment for an existing product was answered 401 for its token
C15_Witness ==
    /\ last.kind = "initiate"
    /\ last.response.status_code = 401
    /\ last.token.sub = "1" /\ ~last.token.valid
    /\ users # <<>>
    /\ last.product_id \in DOMAIN products
    /\ payments = <<>>

\* C16: no two users rows bear the same email and no row is ever changed; a
\* registration answered 200 has stored its own password's hash under the id
\* it returns, and one for an email already registered is answered 400
\* "Email already registered." and leaves the users table as it was.
C16_EmailUnique ==
    /\ [](\A i, j \in DOMAIN users : i # j => users[i].email # users[j].email)
    /\ []((last.kind = "register") =>
             IF last.response.status_code = 200
             THEN /\ last.response.id \in DOMAIN users
                  /\ users[last.response.id].email = last.email
                  /\ users[last.response.id].hashed_password =
                        hash_password(last.password)
                  /\ last.response.email = last.email
             ELSE /\ last.response.status_code = 400
                  /\ last.response.detail = "Email already registered."
                  /\ \E i \in DOMAIN users : users[i].email = last.email)
    /\ [][/\ \A i \in DOMAIN users :
                i \in DOMAIN users' /\ users'[i] = users[i]
          /\ (last'.kind = "register" /\ last'.response.status_code = 400) =>
                users' = users]_vars

\* a second registration of an email, with another password, was refused
C16_Witness ==
    /\ last.kind = "register"
    /\ last.response.status_code = 400
    /\ Len(users) = 2
    /\ \E i \in DOMAIN users :
          /\ users[i].email = last.email
          /\ users[i].hashed_password # hash_password(last.password)

\* C17: login answers 200 with a bearer token exactly when the email is
\* registered and the password is the one given at its registration, and the
\* token's subject is that user's id; otherwise it answers 401 with no token.
C17_LoginIssuesToken ==
    last.kind = "login" =>
       IF \E i \in DOMAIN users :
             /\ users[i].email = last.email
             /\ users[i].hashed_password = hash_password(last.password)
       THEN /\ last.response.status_code = 200
            /\ last.response.access_token.valid
            /\ \E i \in DOMAIN users :
                  /\ users[i].email = last.email
                  /\ last.response.access_token.sub = str(users[i].id)
                  /\ int(decode_token(last.response.access_token).sub) = i
       ELSE /\ last.response.status_code = 401
            /\ last.response.access_token = NoToken

\* the second user logged in and got a token for id 2
C17_Witness ==
    /\ last.kind = "login"
    /\ last.response.status_code = 200
    /\ last.response.access_token.sub = "2"
    /\ Len(users) = 2
    /\ users[2].email = last.email

\* C18: a succeeded or payment_failed event for X dispatched while the request
\* that created X at the gateway has not yet inserted its record, and no
\* record bears X, is acknowledged, changes no record and leaves that request
\* in flight; the record the request then inserts for X is pending.
C18_RaceWindowUnknownId ==
    [][/\ \A w, r \in InFlight :
             (/\ Dispatched(w)
              /\ status_for(w.event_type) # None
              /\ r.kind = "initiate" /\ r.pc = "insert"
              /\ r.payment_intent.id = w.stripe_pi_id
              /\ \A i \in DOMAIN payments :
                    payments[i].stripe_payment_intent_id # w.stripe_pi_id) =>
                 /\ payments' = payments
                 /\ last'.response = Acknowledgment
                 /\ last'.status_before = None
                 /\ CopiesIn(r, reqs') = CopiesIn(r, reqs)
       /\ \A r \in InFlight :
             (/\ Inserted(r)
              /\ last'.response.status_code = 200
              /\ last.kind = "webhook"
              /\ last.stripe_pi_id = r.payment_intent.id
              /\ last.status_before = None) =>
                 /\ Len(payments') = Len(payments) + 1
                 /\ payments'[Len(payments')].stripe_payment_intent_id =
                       r.payment_intent.id
                 /\ payments'[Len(payments')].status = "pending"]_vars

\* a succeeded event for X was acknowledged while the request that created X
\* was still about to insert its record
C18_Witness ==
    /\ last.kind = "webhook"
    /\ last.event_type = "payment_intent.succeeded"
    /\ last.response = Acknowledgment
    /\ last.status_before = None
    /\ \A i \in DOMAIN payments :
          payments[i].stripe_payment_intent_id # last.stripe_pi_id
    /\ \E r \in InFlight :
          /\ r.kind = "initiate" /\ r.pc = "insert"
          /\ r.payment_intent.id = last.stripe_pi_id

\* C19: every payment whose record has been stored and for which the processor
\* has emitted a terminal event eventually has its record in the status that
\* event stands for.
C19_EventualReconciliation ==
    \A pi \in PIds, t \in TerminalEvents :
       (/\ \E e \in events : e.id = pi /\ e.type = t
        /\ matched_status(payments, pi) # None)
          ~> (matched_status(payments, pi) = status_for(t))

====
